---- MODULE Spec2Model ----
(***************************************************************************)
(* Model of the PDF extraction-and-reconstruction pipeline                  *)
(* (pdf_image_extractor.extract_images_from_pdf) together with the part of  *)
(* the object store client (minio_client.MinIOClient) it calls.             *)
(*                                                                          *)
(* Strings are sequences of one-character strings.  A few multi-character   *)
(* literals of the source that are only ever written or searched as a       *)
(* whole (the classifier's marker words, the fixed parts of an image tag)   *)
(* are single elements, written in ASCII.                                   *)
(***************************************************************************)
EXTENDS Integers, Sequences, FiniteSets, TLC

(***************************************************************************)
(* Bounds                                                                   *)
(***************************************************************************)
\* most pages of a PDF
MaxPages == 2
\* most embedded images of a PDF, all pages together
MaxImgs == 3
\* pipeline runs followed in one process
MaxRuns == 2
\* get_minio_client returns followed in one process
MaxCalls == 4

None == "None"

(***************************************************************************)
(* Character classes (str.isalnum, str.isdigit / \d, str.isspace / \s)      *)
(***************************************************************************)
DigitChars == {"0", "1", "2", "3", "4", "5", "6", "7", "8", "9"}
AlnumChars == DigitChars \cup {"a", "b", "c", "d", "e", "m", "n", "o", "t", "u"}
SpaceChars == {" ", "\n"}

(***************************************************************************)
(* Generic string helpers                                                   *)
(***************************************************************************)
RECURSIVE Str(_)
\* str(n) of a natural number: its decimal digits
Str(n) ==
    LET d == n % 10
        c == CASE d = 0 -> "0" [] d = 1 -> "1" [] d = 2 -> "2" [] d = 3 -> "3"
               [] d = 4 -> "4" [] d = 5 -> "5" [] d = 6 -> "6" [] d = 7 -> "7"
               [] d = 8 -> "8" [] OTHER -> "9"
    IN IF n < 10 THEN <<c>> ELSE Str(n \div 10) \o <<c>>

RECURSIVE Filter(_, _)
\* ''.join(c for c in s if c in keep)
Filter(s, keep) ==
    IF s = <<>> THEN <<>>
    ELSE (IF Head(s) \in keep THEN <<Head(s)>> ELSE <<>>) \o Filter(Tail(s), keep)

RECURSIVE LStrip(_)
LStrip(s) == IF s # <<>> /\ Head(s) \in SpaceChars THEN LStrip(Tail(s)) ELSE s

RECURSIVE RStrip(_)
RStrip(s) ==
    IF s # <<>> /\ s[Len(s)] \in SpaceChars THEN RStrip(SubSeq(s, 1, Len(s) - 1)) ELSE s

\* str.strip()
Strip(s) == RStrip(LStrip(s))

RECURSIVE Join(_, _)
\* sep.join(parts)
Join(sep, parts) ==
    IF parts = <<>> THEN <<>>
    ELSE IF Len(parts) = 1 THEN parts[1]
    ELSE parts[1] \o sep \o Join(sep, Tail(parts))

\* index of the last occurrence of c in s, 0 when absent
LastIndexOf(s, c) ==
    LET hits == {i \in 1..Len(s) : s[i] = c}
    IN IF hits = {} THEN 0 ELSE CHOOSE i \in hits : \A j \in hits : j <= i

\* os.path.basename(path)
Basename(path) == SubSeq(path, LastIndexOf(path, "/") + 1, Len(path))

\* os.path.splitext(name)[0]: cut at the last dot unless it only leads the name
SplitextRoot(name) ==
    LET k == LastIndexOf(name, ".")
    IN IF k = 0 \/ (\A i \in 1..k : name[i] = ".") THEN name
       ELSE SubSeq(name, 1, k - 1)

\* length of the longest prefix of s whose characters are all in cls
RECURSIVE Span(_, _)
Span(s, cls) == IF s # <<>> /\ Head(s) \in cls THEN 1 + Span(Tail(s), cls) ELSE 0

\* number of characters the pattern ^\d+\s*\n matches at the start of s
\* (0: no match).  \d+ takes the digit run, \s* the whitespace run and then
\* gives back up to the last newline of that run.
PrefixMatchLen(s) ==
    LET nd == Span(s, DigitChars)
        rest == SubSeq(s, nd + 1, Len(s))
        ns == Span(rest, SpaceChars)
        k == LastIndexOf(SubSeq(rest, 1, ns), "\n")
    IN IF nd = 0 \/ k = 0 THEN 0 ELSE nd + k

RECURSIVE ReSubFrom(_, _)
\* re.sub(r'^\d+\s*\n', '', s, flags=re.MULTILINE), scanning s left to right;
\* bol tells whether the scan position is at the beginning of a line
ReSubFrom(s, bol) ==
    IF s = <<>> THEN <<>>
    ELSE IF bol /\ PrefixMatchLen(s) > 0
         THEN ReSubFrom(SubSeq(s, PrefixMatchLen(s) + 1, Len(s)), TRUE)
         ELSE <<Head(s)>> \o ReSubFrom(Tail(s), Head(s) = "\n")

ReSub(s) == ReSubFrom(s, TRUE)

RECURSIVE SplitFrom(_, _)
\* s.split('\n\n'): cur is the part collected so far
SplitFrom(s, cur) ==
    IF s = <<>> THEN <<cur>>
    ELSE IF Len(s) >= 2 /\ s[1] = "\n" /\ s[2] = "\n"
         THEN <<cur>> \o SplitFrom(SubSeq(s, 3, Len(s)), <<>>)
         ELSE SplitFrom(Tail(s), Append(cur, Head(s)))

SplitParagraphs(s) == SplitFrom(s, <<>>)

RECURSIVE SelectStripped(_)
\* [para.strip() for para in paragraphs if para.strip()]
SelectStripped(paras) ==
    IF paras = <<>> THEN <<>>
    ELSE (IF Strip(Head(paras)) # <<>> THEN <<Strip(Head(paras))>> ELSE <<>>)
         \o SelectStripped(Tail(paras))

\* SelectSeq2 without its page test
SelectSeq2_NoFilter(s, p) == s

RECURSIVE SelectSeq2(_, _)
\* [x for x in s if x.page = p]
SelectSeq2(s, p) ==
    IF s = <<>> THEN <<>>
    ELSE (IF Head(s).page = p THEN <<Head(s)>> ELSE <<>>) \o SelectSeq2(Tail(s), p)


(***************************************************************************)
(* Inputs: the source path, and what the PDF library and the object store   *)
(* answer for each page and embedded image.                                 *)
(***************************************************************************)
PdfPaths ==
    { <<"d", ".", "/", "a", " ", "_", "(", "1", ")", "-", ".", "p">>,
      <<" ", "+", ".", "p">> }

\* an embedded image: its extension as reported by extract_image, and whether
\* extract_image / put_object succeed for it
ImgKinds ==
    { [ext |-> "png", outcome |-> "ok"],
      [ext |-> "jpeg", outcome |-> "ok"],
      [ext |-> "png", outcome |-> "extract_fail"],
      [ext |-> "jpeg", outcome |-> "upload_fail"] }

RECURSIVE SeqsUpTo(_, _)
SeqsUpTo(S, n) ==
    IF n = 0 THEN {<<>>}
    ELSE LET prev == SeqsUpTo(S, n - 1)
         IN prev \cup {Append(q, x) : q \in {r \in prev : Len(r) = n - 1}, x \in S}

ImgLists == SeqsUpTo(ImgKinds, MaxImgs)
ImgListsCore ==
    { <<>>, <<[ext |-> "png", outcome |-> "ok"]>>,
      <<[ext |-> "jpeg", outcome |-> "upload_fail"]>> }

\* the three words the classifier searches for (lines 114-115)
DeviceNameWord == "<shebei-mingcheng>"
ModelWord == "<jixing>"
FaultNameWord == "<guzhang-mingcheng>"

TextsCore == { <<"a">>, <<DeviceNameWord, "a">> }
TextsAll ==
    TextsCore \cup
    { <<>>, <<" ", "\n">>, <<"1">>, <<"1", "\n", "a">>, <<"1", "\n", "\n", "a">>,
      <<"a", "\n", "\n", "b">>, <<"a", "\n", "\n", "\n", "b">>,
      <<ModelWord, FaultNameWord>>, <<ModelWord, "\n", "a">>, <<FaultNameWord, "a">> }

\* uuid.uuid4().hex[:8], abridged
UuidHex == { <<"0", "a">>, <<"f", "7">> }

Endpoint == <<"http://minio">>
BucketName == <<"ragflow-bucket">>

VARIABLES
    pdf_path,          \* argument of the call
    inputs,            \* which family of PDFs is read: "images" or "texts"
    pages,             \* what the PDF library has answered so far:
                       \* pages[i] = [text, images] of page i
    pc,                \* position in extract_images_from_pdf
    doc,               \* local doc: None or the handle
    handle_open,       \* whether the fitz document handle is open
    page_count, page_idx, img_idx,
    extracted_text, extracted_images,
    is_maintenance_doc,
    enhanced_text, page_documents,
    seg_page,          \* for each element of enhanced_text, the page it was built from
    asm_idx,           \* position of the assembly loop in extracted_text
    result,            \* what the call returned or raised
    tier,              \* 0: no recovery, 1..3: recovery tier that ended the call
    err,               \* the exception caught at line 179, if any
    probe,             \* what os.path.exists / Image.open / img.save answered
    bound,             \* the locals among is_maintenance_doc, enhanced_text and
                       \* page_documents that have been assigned so far
    objects,           \* object keys stored in the bucket
    put_calls,         \* keys of the put_object calls of the run, in order
    _minio_client,     \* module global of minio_client.py: NoClient or the instance
    constructed,       \* number of MinIOClient instances constructed so far
    client_returns,    \* what the get_minio_client calls returned, in order
    buckets,           \* buckets that exist in the object store
    runs,              \* number of extract_images_from_pdf calls started
    main_pc,           \* position in main of ragflow_pdf_processor.py,
                       \* "idle" when the pipeline is called as a library
    page_files,        \* local page_files of main
    disk,              \* files main has written: [name, content]
    main_err,          \* where the exception caught at line 117 came from
    main_exit          \* how main ended

vars == << pdf_path, inputs, pages, pc, doc, handle_open, page_count, page_idx, img_idx,
           extracted_text, extracted_images, is_maintenance_doc, enhanced_text,
           page_documents, seg_page, asm_idx, result, tier, err, probe, bound,
           objects, put_calls, _minio_client, constructed, client_returns, buckets,
           runs,
           main_pc, page_files, disk, main_err, main_exit >>

client_vars == << _minio_client, constructed, client_returns, buckets >>
main_vars == << main_pc, page_files, disk, main_err, main_exit >>

\* value of _minio_client before the first construction (None at line 224);
\* an instance is named by its rank among the instances constructed
NoClient == 0

NoErr == [raised |-> FALSE, stage |-> "none", nimages |-> 0]
NoProbe == [exists |-> "untried", opened |-> "untried", saved |-> "untried"]

RECURSIVE SumLens(_)
\* number of embedded images of the pages read so far
SumLens(ps) == IF ps = <<>> THEN 0 ELSE Len(Head(ps).images) + SumLens(Tail(ps))

\* the page texts and the image lists a PDF of the family may hold
InputTexts == IF inputs = "texts" THEN TextsAll ELSE TextsCore
InputImgLists == IF inputs = "images" THEN ImgLists ELSE ImgListsCore
\* len(doc) of a PDF of the family: the PDFs read by the runs of one process
\* are one page shorter
InputPageCounts == 0..(IF inputs = "process" THEN MaxPages - 1 ELSE MaxPages)

InitWith(family) ==
    /\ pdf_path \in PdfPaths
    /\ inputs = family
    /\ pages = <<>>
    /\ pc = "start"
    /\ doc = None
    /\ handle_open = FALSE
    /\ page_count = 0
    /\ page_idx = 0
    /\ img_idx = 0
    /\ extracted_text = <<>>
    /\ extracted_images = <<>>
    /\ is_maintenance_doc = FALSE
    /\ enhanced_text = <<>>
    /\ page_documents = <<>>
    /\ bound = {}
    /\ seg_page = <<>>
    /\ asm_idx = 0
    /\ result = [kind |-> "none"]
    /\ tier = 0
    /\ err = NoErr
    /\ probe = NoProbe
    /\ objects = {}
    /\ put_calls = <<>>
    /\ _minio_client = NoClient
    /\ constructed = 0
    /\ client_returns = <<>>
    /\ buckets = {}
    /\ runs = 1
    /\ main_pc = IF family = "main" THEN "extract" ELSE "idle"
    /\ page_files = <<>>
    /\ disk = {}
    /\ main_err = "none"
    /\ main_exit = "none"

Init == InitWith("images")
InitText == InitWith("texts")
InitProcess == InitWith("process")
InitMain == InitWith("main")

(***************************************************************************)
(* Object store client                                                      *)
(***************************************************************************)
\* public_url = f"{self.endpoint}/{bucket}/{object_key}"
PublicUrl(bucket, object_key) == Endpoint \o <<"/">> \o bucket \o <<"/">> \o object_key

\* get_bucket_url
BucketUrl(bucket) == Endpoint \o <<"/">> \o bucket

(***************************************************************************)
(* Image naming                                                             *)
(***************************************************************************)
\* SafeName without the fallback of lines 77-78
SafeName_NoFallback(path) ==
    Strip(Filter(SplitextRoot(Basename(path)), AlnumChars \cup {"_", "-"}))

SafeName(path) ==
    LET pdf_base_name == SplitextRoot(Basename(path))
        kept == Strip(Filter(pdf_base_name, AlnumChars \cup {"_", "-"}))
    IN IF kept = <<>> THEN <<"d", "o", "c", "u", "m", "e", "n", "t">> ELSE kept

\* ImageFilename without the image index
ImageFilename_NoImgIdx(path, pageIdx, imgIdx) ==
    SafeName(path) \o <<"_", "p", "a", "g", "e">> \o Str(pageIdx + 1)
        \o <<"_", "i", "m", "g">> \o <<"_", "v", "1", ".", "p", "n", "g">>

ImageFilename(path, pageIdx, imgIdx) ==
    SafeName(path) \o <<"_", "p", "a", "g", "e">> \o Str(pageIdx + 1)
        \o <<"_", "i", "m", "g">> \o Str(imgIdx + 1) \o <<"_", "v", "1", ".", "p", "n", "g">>


\* <img src="{url}" alt="{alt}" width="300">
ImgTag(url, alt) == <<"<img src=\"">> \o url \o <<"\" alt=\"", alt, "\" width=\"300\">">>

IsImgTagStart(c) == c = "<img src=\""

\* `word in text`
Contains(text, word) == \E i \in 1..Len(text) : text[i] = word

\* the text cleanup of lines 126-130 and 157-161
CleanText(text) == ReSub(Strip(text))

\* IsMaintenanceDoc with the two tokens looked up on any pages
IsMaintenanceDoc_AcrossPages(texts) ==
    \/ \E i \in 1..Len(texts) : Contains(texts[i].text, DeviceNameWord)
    \/ /\ \E i \in 1..Len(texts) : Contains(texts[i].text, ModelWord)
       /\ \E i \in 1..Len(texts) : Contains(texts[i].text, FaultNameWord)

\* lines 113-117
IsMaintenanceDoc(texts) ==
    \E i \in 1..Len(texts) :
        \/ Contains(texts[i].text, DeviceNameWord)
        \/ (Contains(texts[i].text, ModelWord) /\ Contains(texts[i].text, FaultNameWord))

\* truth value of `doc` in `if doc:`: the Document class defines __len__ (the
\* page count) and no __bool__
DocTruthy == doc # None /\ page_count > 0

Raise(stage) ==
    /\ pc' = "except"
    /\ err' = [raised |-> TRUE, stage |-> stage, nimages |-> Len(extracted_images)]

(***************************************************************************)
(* extract_images_from_pdf, lines 19-38: client and bucket                  *)
(***************************************************************************)
\* get_minio_client without the test of line 234
GetMinioClient_AlwaysNew(client, made, ok) ==
    IF ok THEN [client |-> made + 1, made |-> made + 1, ret |-> made + 1]
    ELSE [client |-> client, made |-> made, ret |-> NoClient]

\* get_minio_client called when the global holds `client` and `made`
\* instances exist; ok: whether MinIOClient() would succeed. Gives the new
\* value of the global, the new number of instances and the value returned
GetMinioClient(client, made, ok) ==
    IF client = NoClient
    THEN IF ok THEN [client |-> made + 1, made |-> made + 1, ret |-> made + 1]
         ELSE [client |-> NoClient, made |-> made, ret |-> NoClient]
    ELSE [client |-> client, made |-> made, ret |-> client]

\* lines 22-32 pass: the client of line 22 is an instance, and
\* init_minio_bucket (which calls get_minio_client again at line 253)
\* returns a bucket and its URL
Setup ==
    /\ pc = "start"
    /\ \E ok \in BOOLEAN :
          LET first == GetMinioClient(_minio_client, constructed, ok)
              second == GetMinioClient(first.client, first.made, TRUE)
          IN /\ first.ret # NoClient
             /\ second.ret # NoClient
             /\ _minio_client' = second.client
             /\ constructed' = second.made
             /\ client_returns' = client_returns \o <<first.ret, second.ret>>
    /\ buckets' = buckets \cup {BucketName}
    /\ pc' = "open"
    /\ UNCHANGED << runs, main_vars, bound, pdf_path, inputs, pages, doc, handle_open, page_count, page_idx, img_idx,
                    extracted_text, extracted_images, is_maintenance_doc,
                    enhanced_text, page_documents, seg_page, asm_idx, result, tier,
                    err, probe, objects, put_calls >>

\* get_minio_client returned None (line 24), or init_minio_bucket returned
\* (None, None) because creating the bucket failed (line 32): ValueError
\* raised before the try statement
SetupFail ==
    /\ pc = "start"
    /\ \E ok \in BOOLEAN :
          LET first == GetMinioClient(_minio_client, constructed, ok)
              second == GetMinioClient(first.client, first.made, TRUE)
          IN IF first.ret = NoClient
             THEN /\ _minio_client' = first.client
                  /\ constructed' = first.made
                  /\ client_returns' = Append(client_returns, first.ret)
             ELSE /\ _minio_client' = second.client
                  /\ constructed' = second.made
                  /\ client_returns' = client_returns \o <<first.ret, second.ret>>
    /\ pc' = "done"
    /\ result' = [kind |-> "raise", error |-> "ValueError"]
    /\ UNCHANGED << buckets, runs, main_vars, bound, pdf_path, inputs, pages, doc, handle_open, page_count, page_idx, img_idx,
                    extracted_text, extracted_images, is_maintenance_doc,
                    enhanced_text, page_documents, seg_page, asm_idx, tier,
                    err, probe, objects, put_calls >>

(***************************************************************************)
(* lines 46-107: scanning                                                   *)
(***************************************************************************)
OpenPdf ==
    /\ pc = "open"
    /\ doc' = "handle"
    /\ handle_open' = TRUE
    /\ page_count' \in InputPageCounts
    /\ page_idx' = 0
    /\ pc' = "scan"
    /\ UNCHANGED << client_vars, runs, main_vars, bound, pdf_path, inputs, pages, img_idx, extracted_text, extracted_images,
                    is_maintenance_doc, enhanced_text, page_documents, seg_page,
                    asm_idx, result, tier, err, probe, objects, put_calls >>

OpenPdfFail ==
    /\ pc = "open"
    /\ Raise("open")
    /\ UNCHANGED << client_vars, runs, main_vars, bound, pdf_path, inputs, pages, doc, handle_open, page_count, page_idx, img_idx,
                    extracted_text, extracted_images, is_maintenance_doc,
                    enhanced_text, page_documents, seg_page, asm_idx, result, tier,
                    probe, objects, put_calls >>

\* lines 54-63: page.get_text() and page.get_images() answer
GetPageText ==
    /\ pc = "scan"
    /\ page_idx < page_count
    /\ \E text \in InputTexts :
       \E image_list \in {l \in InputImgLists : SumLens(pages) + Len(l) <= MaxImgs} :
          /\ pages' = Append(pages, [text |-> text, images |-> image_list])
          /\ extracted_text' = Append(extracted_text, [page |-> page_idx + 1, text |-> text])
    /\ img_idx' = 0
    /\ pc' = "images"
    /\ UNCHANGED << client_vars, runs, main_vars, bound, pdf_path, inputs, doc, handle_open, page_count, page_idx,
                    extracted_images, is_maintenance_doc, enhanced_text,
                    page_documents, seg_page, asm_idx, result, tier, err, probe,
                    objects, put_calls >>

\* page.get_text() raises
GetPageTextFail ==
    /\ pc = "scan"
    /\ page_idx < page_count
    /\ Raise("get_text")
    /\ UNCHANGED << client_vars, runs, main_vars, bound, pdf_path, inputs, pages, doc, handle_open, page_count, page_idx, img_idx,
                    extracted_text, extracted_images, is_maintenance_doc,
                    enhanced_text, page_documents, seg_page, asm_idx, result, tier,
                    probe, objects, put_calls >>

\* page.get_images() raises, after the page's text was recorded
GetImagesFail ==
    /\ pc = "scan"
    /\ page_idx < page_count
    /\ \E text \in InputTexts :
          /\ pages' = Append(pages, [text |-> text, images |-> <<>>])
          /\ extracted_text' = Append(extracted_text, [page |-> page_idx + 1, text |-> text])
    /\ Raise("get_images")
    /\ UNCHANGED << client_vars, runs, main_vars, bound, pdf_path, inputs, doc, handle_open, page_count, page_idx, img_idx,
                    extracted_images, is_maintenance_doc, enhanced_text,
                    page_documents, seg_page, asm_idx, result, tier, probe, objects,
                    put_calls >>

\* ImageRecord with the 0-based page index as page
ImageRecord_ZeroBasedPage(filename, pageIdx, ext, url) ==
    [filename |-> filename, page |-> pageIdx, content_type |-> ext, url |-> url]

\* the record of lines 94-99
ImageRecord(filename, pageIdx, ext, url) ==
    [filename |-> filename, page |-> pageIdx + 1, content_type |-> ext, url |-> url]

\* one iteration of the image loop whose body completes (lines 68-101)
ExtractImage ==
    /\ pc = "images"
    /\ img_idx < Len(pages[page_idx + 1].images)
    /\ LET img == pages[page_idx + 1].images[img_idx + 1]
           image_filename == ImageFilename(pdf_path, page_idx, img_idx)
           image_url == PublicUrl(BucketName, image_filename)
       IN /\ img.outcome = "ok"
          /\ put_calls' = Append(put_calls, image_filename)
          /\ objects' = objects \cup {image_filename}
          /\ extracted_images' =
                Append(extracted_images,
                       ImageRecord(image_filename, page_idx, img.ext, image_url))
    /\ img_idx' = img_idx + 1
    /\ UNCHANGED << client_vars, runs, main_vars, bound, pdf_path, inputs, pages, pc, doc, handle_open, page_count, page_idx,
                    extracted_text, is_maintenance_doc, enhanced_text,
                    page_documents, seg_page, asm_idx, result, tier, err, probe >>

\* ExtractImageFail without the try statement of line 67: the exception of
\* the image reaches the handler of line 179
ExtractImageFail_Propagates ==
    /\ pc = "images"
    /\ img_idx < Len(pages[page_idx + 1].images)
    /\ LET img == pages[page_idx + 1].images[img_idx + 1]
       IN /\ img.outcome # "ok"
          /\ put_calls' = IF img.outcome = "upload_fail"
                          THEN Append(put_calls, ImageFilename(pdf_path, page_idx, img_idx))
                          ELSE put_calls
    /\ Raise("image")
    /\ UNCHANGED << client_vars, runs, main_vars, bound, pdf_path, inputs, pages, doc, handle_open, page_count, page_idx,
                    img_idx, extracted_text, extracted_images, is_maintenance_doc,
                    enhanced_text, page_documents, seg_page, asm_idx, result, tier,
                    probe, objects >>

\* one iteration of the image loop that ends in the handler of line 102:
\* doc.extract_image raised, or put_object raised inside upload_image_bytes
ExtractImageFail ==
    /\ pc = "images"
    /\ img_idx < Len(pages[page_idx + 1].images)
    /\ LET img == pages[page_idx + 1].images[img_idx + 1]
       IN /\ img.outcome # "ok"
          /\ put_calls' = IF img.outcome = "upload_fail"
                          THEN Append(put_calls, ImageFilename(pdf_path, page_idx, img_idx))
                          ELSE put_calls
    /\ img_idx' = img_idx + 1
    /\ UNCHANGED << client_vars, runs, main_vars, bound, pdf_path, inputs, pages, pc, doc, handle_open, page_count, page_idx,
                    extracted_text, extracted_images, is_maintenance_doc,
                    enhanced_text, page_documents, seg_page, asm_idx, result, tier,
                    err, probe, objects >>

\* the image loop of a page is exhausted: next iteration of the page loop
NextPage ==
    /\ pc = "images"
    /\ img_idx = Len(pages[page_idx + 1].images)
    /\ page_idx' = page_idx + 1
    /\ pc' = "scan"
    /\ UNCHANGED << client_vars, runs, main_vars, bound, pdf_path, inputs, pages, doc, handle_open, page_count, img_idx,
                    extracted_text, extracted_images, is_maintenance_doc,
                    enhanced_text, page_documents, seg_page, asm_idx, result, tier,
                    err, probe, objects, put_calls >>

\* lines 105-107
CloseDoc ==
    /\ pc = "scan"
    /\ page_idx = page_count
    /\ handle_open' = FALSE
    /\ doc' = None
    /\ pc' = "classify"
    /\ UNCHANGED << client_vars, runs, main_vars, bound, pdf_path, inputs, pages, page_count, page_idx, img_idx, extracted_text,
                    extracted_images, is_maintenance_doc, enhanced_text,
                    page_documents, seg_page, asm_idx, result, tier, err, probe,
                    objects, put_calls >>


(***************************************************************************)
(* lines 109-177: classification and assembly                               *)
(***************************************************************************)
Classify ==
    /\ pc = "classify"
    /\ enhanced_text' = <<>>
    /\ is_maintenance_doc' = IsMaintenanceDoc(extracted_text)
    /\ page_documents' = <<>>
    /\ bound' = {"enhanced_text", "is_maintenance_doc"}
                 \cup (IF IsMaintenanceDoc(extracted_text) THEN {"page_documents"} ELSE {})
    /\ asm_idx' = 0
    /\ pc' = "assemble"
    /\ UNCHANGED << client_vars, runs, main_vars, pdf_path, inputs, pages, doc, handle_open, page_count, page_idx, img_idx,
                    extracted_text, extracted_images, seg_page, result, tier, err,
                    probe, objects, put_calls >>

\* content of the page document of one page (lines 125-146)
PageContent(page_data, images) ==
    LET page_images == SelectSeq2(images, page_data.page)
        tags == [i \in 1..Len(page_images) |-> ImgTag(page_images[i].url, "weixiu-tupian")]
        page_content ==
            <<CleanText(page_data.text)>>
            \o (IF page_images # <<>>
                THEN << <<"\n", "### xiangguan-tupian", "\n">> >> \o tags
                ELSE <<>>)
    IN Join(<<"\n">>, page_content)

\* title of a page document (line 147)
PageTitle(page_num) == <<"weixiu-anli-di">> \o Str(page_num) \o <<"ye">>

\* one iteration of the loop of line 124
AssembleMaintenancePage ==
    /\ pc = "assemble"
    /\ is_maintenance_doc = TRUE
    /\ asm_idx < Len(extracted_text)
    /\ LET page_data == extracted_text[asm_idx + 1]
       IN page_documents' =
             Append(page_documents,
                    [page |-> page_data.page,
                     content |-> PageContent(page_data, extracted_images),
                     title |-> PageTitle(page_data.page)])
    /\ asm_idx' = asm_idx + 1
    /\ UNCHANGED << client_vars, runs, main_vars, bound, pdf_path, inputs, pages, pc, doc, handle_open, page_count, page_idx,
                    img_idx, extracted_text, extracted_images, is_maintenance_doc,
                    enhanced_text, seg_page, result, tier, err, probe, objects,
                    put_calls >>

\* GenericSegments without the test of line 166
GenericSegments_KeepEmpty(page_data, images) ==
    LET paragraphs == SplitParagraphs(CleanText(page_data.text))
        page_images == SelectSeq2(images, page_data.page)
    IN [i \in 1..Len(paragraphs) |-> Strip(paragraphs[i])]
       \o [i \in 1..Len(page_images) |->
              <<"\n">> \o ImgTag(page_images[i].url, "wendang-tupian") \o <<"\n">>]

\* the segments one page adds to enhanced_text in generic mode (lines 156-175)
GenericSegments(page_data, images) ==
    LET paragraphs == SplitParagraphs(CleanText(page_data.text))
        page_images == SelectSeq2(images, page_data.page)
    IN SelectStripped(paragraphs)
       \o [i \in 1..Len(page_images) |->
              <<"\n">> \o ImgTag(page_images[i].url, "wendang-tupian") \o <<"\n">>]

\* AssembleGenericPage entered whatever the classifier decided
AssembleGenericPage_AnyMode ==
    /\ pc = "assemble"
    /\ asm_idx < Len(extracted_text)
    /\ LET page_data == extracted_text[asm_idx + 1]
           segs == GenericSegments(page_data, extracted_images)
       IN /\ enhanced_text' = enhanced_text \o segs
          /\ seg_page' = seg_page \o [i \in 1..Len(segs) |-> page_data.page]
    /\ asm_idx' = asm_idx + 1
    /\ UNCHANGED << client_vars, runs, main_vars, bound, pdf_path, inputs, pages, pc, doc, handle_open, page_count, page_idx,
                    img_idx, extracted_text, extracted_images, is_maintenance_doc,
                    page_documents, result, tier, err, probe, objects, put_calls >>

\* one iteration of the loop of line 155
AssembleGenericPage ==
    /\ pc = "assemble"
    /\ is_maintenance_doc = FALSE
    /\ asm_idx < Len(extracted_text)
    /\ LET page_data == extracted_text[asm_idx + 1]
           segs == GenericSegments(page_data, extracted_images)
       IN /\ enhanced_text' = enhanced_text \o segs
          /\ seg_page' = seg_page \o [i \in 1..Len(segs) |-> page_data.page]
    /\ asm_idx' = asm_idx + 1
    /\ UNCHANGED << client_vars, runs, main_vars, bound, pdf_path, inputs, pages, pc, doc, handle_open, page_count, page_idx,
                    img_idx, extracted_text, extracted_images, is_maintenance_doc,
                    page_documents, result, tier, err, probe, objects, put_calls >>

\* an exception raised between lines 110 and 177 (for instance MemoryError
\* while the strings are built)
AssembleRaise ==
    /\ pc = "assemble"
    /\ Raise("assemble")
    /\ UNCHANGED << client_vars, runs, main_vars, bound, pdf_path, inputs, pages, doc, handle_open, page_count, page_idx, img_idx,
                    extracted_text, extracted_images, is_maintenance_doc,
                    enhanced_text, page_documents, seg_page, asm_idx, result, tier,
                    probe, objects, put_calls >>

\* line 151
ReturnPageDocuments ==
    /\ pc = "assemble"
    /\ is_maintenance_doc = TRUE
    /\ asm_idx = Len(extracted_text)
    /\ result' = [kind |-> "page_documents", value |-> page_documents,
                  images |-> extracted_images]
    /\ pc' = "finally"
    /\ UNCHANGED << client_vars, runs, main_vars, bound, pdf_path, inputs, pages, doc, handle_open, page_count, page_idx, img_idx,
                    extracted_text, extracted_images, is_maintenance_doc,
                    enhanced_text, page_documents, seg_page, asm_idx, tier, err,
                    probe, objects, put_calls >>

\* line 177
ReturnMergedText ==
    /\ pc = "assemble"
    /\ is_maintenance_doc = FALSE
    /\ asm_idx = Len(extracted_text)
    /\ result' = [kind |-> "text", value |-> Join(<<"\n">>, enhanced_text),
                  images |-> extracted_images]
    /\ pc' = "finally"
    /\ UNCHANGED << client_vars, runs, main_vars, bound, pdf_path, inputs, pages, doc, handle_open, page_count, page_idx, img_idx,
                    extracted_text, extracted_images, is_maintenance_doc,
                    enhanced_text, page_documents, seg_page, asm_idx, tier, err,
                    probe, objects, put_calls >>

(***************************************************************************)
(* lines 179-229: the handler and the finally clause                        *)
(***************************************************************************)
RECURSIVE SalvageSegments_AllPages(_, _, _)
\* SalvageSegments without the test of line 189: a heading for every page
SalvageSegments_AllPages(from, count, images) ==
    IF from > count THEN <<>>
    ELSE LET page_images == SelectSeq2(images, from)
         IN << <<"## di">> \o Str(from) \o <<"ye-tupian", "\n">> >>
            \o [i \in 1..Len(page_images) |->
                   <<"\n">> \o ImgTag(page_images[i].url, "tupian") \o <<"\n">>]
            \o SalvageSegments_AllPages(from + 1, count, images)

RECURSIVE SalvageSegments(_, _, _)
\* the list built by the loop of lines 187-193, for pages from..count
SalvageSegments(from, count, images) ==
    IF from > count THEN <<>>
    ELSE LET page_images == SelectSeq2(images, from)
         IN (IF page_images # <<>>
             THEN << <<"## di">> \o Str(from) \o <<"ye-tupian", "\n">> >>
                  \o [i \in 1..Len(page_images) |->
                         <<"\n">> \o ImgTag(page_images[i].url, "tupian") \o <<"\n">>]
             ELSE <<>>)
            \o SalvageSegments(from + 1, count, images)

\* SalvageApplies testing the page texts instead of the images
SalvageApplies_TextCheck == extracted_text # <<>>

\* whether lines 183-196 return
SalvageApplies ==
    /\ extracted_images # <<>>
    /\ SalvageSegments(1, page_count, extracted_images) # <<>>

\* lines 183-196
RecoverTier1 ==
    /\ pc = "except"
    /\ SalvageApplies
    /\ enhanced_text' = SalvageSegments(1, page_count, extracted_images)
    /\ bound' = bound \cup {"enhanced_text"}
    /\ result' = [kind |-> "text",
                  value |-> Join(<<"\n">>, SalvageSegments(1, page_count, extracted_images)),
                  images |-> extracted_images]
    /\ tier' = 1
    /\ pc' = "finally"
    /\ UNCHANGED << client_vars, runs, main_vars, pdf_path, inputs, pages, doc, handle_open, page_count, page_idx, img_idx,
                    extracted_text, extracted_images, is_maintenance_doc,
                    page_documents, seg_page, asm_idx, err, probe, objects,
                    put_calls >>

\* lines 199-217: the path exists, Image.open and img.save succeed
RecoverTier2 ==
    /\ pc = "except"
    /\ ~SalvageApplies
    /\ probe' = [exists |-> "yes", opened |-> "ok", saved |-> "ok"]
    /\ \E hex \in UuidHex :
          LET img_filename ==
                  <<"d", "o", "c", "u", "m", "e", "n", "t", "_", "i", "m", "a", "g", "e", "_">>
                  \o hex \o <<".", "p", "n", "g">>
              image_url == BucketUrl(BucketName) \o <<"/">> \o img_filename
              img_info == [filename |-> img_filename,
                           temp_path |-> <<"temp_images", "/">> \o img_filename,
                           page |-> 1, content_type |-> "png", url |-> image_url]
          IN /\ extracted_images' = <<img_info>>
             /\ result' = [kind |-> "text", value |-> ImgTag(image_url, "tupian"),
                           images |-> <<img_info>>]
    /\ tier' = 2
    /\ pc' = "finally"
    /\ UNCHANGED << client_vars, runs, main_vars, bound, pdf_path, inputs, pages, doc, handle_open, page_count, page_idx, img_idx,
                    extracted_text, is_maintenance_doc, enhanced_text,
                    page_documents, seg_page, asm_idx, err, objects, put_calls >>

\* line 222, reached when the path does not exist, or Image.open raises, or
\* img.save raises (lines 199-219)
RecoverTier3 ==
    /\ pc = "except"
    /\ ~SalvageApplies
    /\ probe' \in { [exists |-> "no", opened |-> "untried", saved |-> "untried"],
                    [exists |-> "yes", opened |-> "fail", saved |-> "untried"],
                    [exists |-> "yes", opened |-> "ok", saved |-> "fail"] }
    /\ result' = [kind |-> "raise", error |-> "Exception"]
    /\ tier' = 3
    /\ pc' = "finally"
    /\ UNCHANGED << client_vars, runs, main_vars, bound, pdf_path, inputs, pages, doc, handle_open, page_count, page_idx, img_idx,
                    extracted_text, extracted_images, is_maintenance_doc,
                    enhanced_text, page_documents, seg_page, asm_idx, err, objects,
                    put_calls >>

\* Finally without the close of line 227
Finally_NoClose ==
    /\ pc = "finally"
    /\ pc' = "done"
    /\ UNCHANGED << client_vars, runs, main_vars, bound, pdf_path, inputs, pages, doc, handle_open, page_count, page_idx,
                    img_idx, extracted_text, extracted_images, is_maintenance_doc,
                    enhanced_text, page_documents, seg_page, asm_idx, result, tier,
                    err, probe, objects, put_calls >>

\* lines 223-229
Finally ==
    /\ pc = "finally"
    /\ handle_open' = IF DocTruthy THEN FALSE ELSE handle_open
    /\ pc' = "done"
    /\ UNCHANGED << client_vars, runs, main_vars, bound, pdf_path, inputs, pages, doc, page_count, page_idx, img_idx,
                    extracted_text, extracted_images, is_maintenance_doc,
                    enhanced_text, page_documents, seg_page, asm_idx, result, tier,
                    err, probe, objects, put_calls >>

(***************************************************************************)
(* the pipeline used as a library: several runs and direct calls of the     *)
(* client functions in one process                                          *)
(***************************************************************************)
\* get_minio_client called between two runs (minio_client.py lines 226-240)
GetMinioClientCall ==
    /\ main_pc = "idle"
    /\ pc \in {"start", "done"}
    /\ Len(client_returns) < MaxCalls
    /\ \E ok \in BOOLEAN :
          LET call == GetMinioClient(_minio_client, constructed, ok)
          IN /\ _minio_client' = call.client
             /\ constructed' = call.made
             /\ client_returns' = Append(client_returns, call.ret)
    /\ UNCHANGED << buckets, runs, main_vars, bound, pdf_path, inputs, pages, pc, doc,
                    handle_open, page_count, page_idx, img_idx, extracted_text,
                    extracted_images, is_maintenance_doc, enhanced_text,
                    page_documents, seg_page, asm_idx, result, tier, err, probe,
                    objects, put_calls >>

\* init_minio_bucket called between two runs (minio_client.py lines 242-295):
\* (None, None) without a client or when creating the bucket fails
InitMinioBucketCall ==
    /\ main_pc = "idle"
    /\ pc \in {"start", "done"}
    /\ Len(client_returns) < MaxCalls
    /\ \E ok \in BOOLEAN, created \in BOOLEAN :
          LET call == GetMinioClient(_minio_client, constructed, ok)
          IN /\ _minio_client' = call.client
             /\ constructed' = call.made
             /\ client_returns' = Append(client_returns, call.ret)
             /\ buckets' = IF call.ret # NoClient /\ created
                           THEN buckets \cup {BucketName} ELSE buckets
    /\ UNCHANGED << runs, main_vars, bound, pdf_path, inputs, pages, pc, doc,
                    handle_open, page_count, page_idx, img_idx, extracted_text,
                    extracted_images, is_maintenance_doc, enhanced_text,
                    page_documents, seg_page, asm_idx, result, tier, err, probe,
                    objects, put_calls >>

\* extract_images_from_pdf is called again after the previous call ended: the
\* locals are fresh, the module global and the object store are kept
NewRun ==
    /\ main_pc = "idle"
    /\ pc = "done"
    /\ runs < MaxRuns
    /\ runs' = runs + 1
    /\ pdf_path' \in PdfPaths
    /\ pages' = <<>>
    /\ pc' = "start"
    /\ doc' = None
    /\ handle_open' = FALSE
    /\ page_count' = 0
    /\ page_idx' = 0
    /\ img_idx' = 0
    /\ extracted_text' = <<>>
    /\ extracted_images' = <<>>
    /\ is_maintenance_doc' = FALSE
    /\ enhanced_text' = <<>>
    /\ page_documents' = <<>>
    /\ bound' = {}
    /\ seg_page' = <<>>
    /\ asm_idx' = 0
    /\ result' = [kind |-> "none"]
    /\ tier' = 0
    /\ err' = NoErr
    /\ probe' = NoProbe
    /\ put_calls' = <<>>
    /\ UNCHANGED << client_vars, main_vars, inputs, objects >>

(***************************************************************************)
(* ragflow_pdf_processor.py, main: the command-line entry point             *)
(***************************************************************************)
\* the local variables shared by the steps of main
RunVars == << pdf_path, inputs, pages, pc, doc, handle_open, page_count, page_idx,
              img_idx, extracted_text, extracted_images, is_maintenance_doc,
              enhanced_text, page_documents, seg_page, asm_idx, result, tier, err,
              probe, bound, objects, put_calls, runs >>

\* line 60: f"{base_name}_page{page_doc['page']}.md", base_name of line 57
PageFilename(path, page) ==
    SplitextRoot(Basename(path)) \o <<"_page">> \o Str(page) \o <<".md">>

\* whether the loop of line 59 has no element left: all the page documents
\* are written, or the value iterated is the empty string
LoopExhausted ==
    /\ main_pc = "write"
    /\ \/ result.kind = "page_documents" /\ Len(page_files) = Len(result.value)
       \/ result.kind = "text" /\ result.value = <<>>

\* lines 44-48 raise: the exception of extract_images_from_pdf reaches line 117
MainExtractRaised ==
    /\ main_pc = "extract"
    /\ pc = "done"
    /\ result.kind = "raise"
    /\ main_pc' = "handler"
    /\ main_err' = "extraction"
    /\ UNCHANGED << client_vars, RunVars, page_files, disk, main_exit >>

\* lines 44-57: the call returns a pair, copy_images_to_server prints the
\* images, page_files = []
MainExtractReturned ==
    /\ main_pc = "extract"
    /\ pc = "done"
    /\ result.kind \in {"page_documents", "text"}
    /\ main_pc' = "write"
    /\ page_files' = <<>>
    /\ UNCHANGED << client_vars, RunVars, disk, main_err, main_exit >>

\* lines 59-64, one iteration over a list of page documents
MainWritePage ==
    /\ main_pc = "write"
    /\ result.kind = "page_documents"
    /\ Len(page_files) < Len(result.value)
    /\ LET page_doc == result.value[Len(page_files) + 1]
           page_filename == PageFilename(pdf_path, page_doc.page)
       IN /\ disk' = {f \in disk : f.name # page_filename}
                       \cup {[name |-> page_filename, content |-> page_doc.content]}
          /\ page_files' = Append(page_files, page_filename)
    /\ UNCHANGED << client_vars, RunVars, main_pc, main_err, main_exit >>

\* lines 61-62 raise: the file cannot be opened or written
MainWriteFail ==
    /\ main_pc = "write"
    /\ result.kind = "page_documents"
    /\ Len(page_files) < Len(result.value)
    /\ main_pc' = "handler"
    /\ main_err' = "file_write"
    /\ UNCHANGED << client_vars, RunVars, page_files, disk, main_exit >>

\* lines 59-60 when the first value returned is a string that is not empty:
\* page_doc is its first character and page_doc['page'] raises TypeError
MainIterateText ==
    /\ main_pc = "write"
    /\ result.kind = "text"
    /\ result.value # <<>>
    /\ main_pc' = "handler"
    /\ main_err' = "type_error"
    /\ UNCHANGED << client_vars, RunVars, page_files, disk, main_exit >>

\* lines 66-75: --skip_ragflow is set, the summary is printed
MainSkipRagflow ==
    /\ LoopExhausted
    /\ main_pc' = "done"
    /\ main_exit' = "summary_skip"
    /\ UNCHANGED << client_vars, RunVars, page_files, disk, main_err >>

\* lines 66-80: no API key, an error message is printed and main returns
MainNoApiKey ==
    /\ LoopExhausted
    /\ main_pc' = "done"
    /\ main_exit' = "no_api_key"
    /\ UNCHANGED << client_vars, RunVars, page_files, disk, main_err >>

\* lines 66-116: create_ragflow_resources_multi_docs returns, the summary is
\* printed
MainCreateKb ==
    /\ LoopExhausted
    /\ main_pc' = "done"
    /\ main_exit' = "summary_kb"
    /\ UNCHANGED << client_vars, RunVars, page_files, disk, main_err >>

\* lines 95-103 raise (ragflow_kb_manager.py line 213 re-raises)
MainCreateKbFail ==
    /\ LoopExhausted
    /\ main_pc' = "handler"
    /\ main_err' = "kb"
    /\ UNCHANGED << client_vars, RunVars, page_files, disk, main_exit >>

\* whether 'enhanced_text' in locals() holds at line 122: main never assigns
\* a local of that name
MainHasEnhancedText == FALSE

\* lines 117-126: the message is printed, the number of images is printed when
\* extracted_images is bound and not empty, <base_name>_enhanced.txt is
\* written when enhanced_text is bound; main then returns
MainHandler ==
    /\ main_pc = "handler"
    /\ disk' = IF MainHasEnhancedText
               THEN disk \cup {[name |-> SplitextRoot(Basename(pdf_path))
                                          \o <<"_enhanced.txt">>,
                                content |-> result.value]}
               ELSE disk
    /\ main_pc' = "done"
    /\ main_exit' = "handled"
    /\ UNCHANGED << client_vars, RunVars, page_files, main_err >>

Next ==
    \/ Setup
    \/ SetupFail
    \/ OpenPdf
    \/ OpenPdfFail
    \/ GetPageText
    \/ GetPageTextFail
    \/ GetImagesFail
    \/ ExtractImage
    \/ ExtractImageFail
    \/ NextPage
    \/ CloseDoc
    \/ Classify
    \/ AssembleMaintenancePage
    \/ AssembleGenericPage
    \/ AssembleRaise
    \/ ReturnPageDocuments
    \/ ReturnMergedText
    \/ RecoverTier1
    \/ RecoverTier2
    \/ RecoverTier3
    \/ Finally

Spec == Init /\ [][Next]_vars
SpecText == InitText /\ [][Next]_vars

NextProcess ==
    \/ Next
    \/ GetMinioClientCall
    \/ InitMinioBucketCall
    \/ NewRun

SpecProcess == InitProcess /\ [][NextProcess]_vars

NextMain ==
    \/ Next
    \/ MainExtractRaised
    \/ MainExtractReturned
    \/ MainWritePage
    \/ MainWriteFail
    \/ MainIterateText
    \/ MainSkipRagflow
    \/ MainNoApiKey
    \/ MainCreateKb
    \/ MainCreateKbFail
    \/ MainHandler

SpecMain == InitMain /\ [][NextMain]_vars


(***************************************************************************)
(* Vocabulary of the properties                                             *)
(***************************************************************************)
\* the call ended by one of the two normal return statements
NormalDone == pc = "done" /\ ~err.raised /\ result.kind # "raise"

\* the call ended after its handler ran
FailedDone == pc = "done" /\ err.raised

\* the URLs of the image tags written in the string s, in order: what stands
\* between each `<img src="` and the `" alt="` that follows it
TagUrls(s) ==
    LET starts == {i \in 1..Len(s) : IsImgTagStart(s[i])}
        nth(n) == CHOOSE i \in starts : Cardinality({j \in starts : j <= i}) = n
        stop(i) == CHOOSE j \in (i + 1)..Len(s) :
                      /\ s[j] = "\" alt=\""
                      /\ \A m \in (i + 1)..(j - 1) : s[m] # "\" alt=\""
    IN [n \in 1..Cardinality(starts) |-> SubSeq(s, nth(n) + 1, stop(nth(n)) - 1)]

RECURSIVE Concat(_)
Concat(ss) == IF ss = <<>> THEN <<>> ELSE Head(ss) \o Concat(Tail(ss))

\* the object key of embedded image i (1-based) of page p (1-based)
KeyOf(p, i) == ImageFilename(pdf_path, p - 1, i - 1)

RECURSIVE OkIndicesFrom(_, _)
\* the 1-based indices, in increasing order, of the images of a page that are
\* extracted and uploaded without error
OkIndicesFrom(images, i) ==
    IF i > Len(images) THEN <<>>
    ELSE (IF images[i].outcome = "ok" THEN <<i>> ELSE <<>>) \o OkIndicesFrom(images, i + 1)

OkIndices(images) == OkIndicesFrom(images, 1)

\* URLs of the image tags the output holds for page p: the content of the
\* page's PageDocument, or the segments of enhanced_text built from page p
OutputUrlsOfPage(p) ==
    IF result.kind = "page_documents"
    THEN Concat([k \in 1..Len(result.value) |->
                    IF result.value[k].page = p THEN TagUrls(result.value[k].content)
                    ELSE <<>>])
    ELSE Concat([k \in 1..Len(enhanced_text) |->
                    IF seg_page[k] = p THEN TagUrls(enhanced_text[k]) ELSE <<>>])

\* URLs of the ExtractedImage records of page p in the returned image list
RecordUrlsOfPage(p) ==
    LET recs == SelectSeq(result.images, LAMBDA r : r.page = p)
    IN [k \in 1..Len(recs) |-> recs[k].url]


(***************************************************************************)
(* C1: recovery tiers                                                       *)
(***************************************************************************)
\* C1 (as stated): when the handler of line 179 has run, exactly one tier is
\* the outcome; tier 1 iff at least one ExtractedImage record existed at the
\* moment of the error, tier 2 iff none existed and the source path opened as
\* a raster image, tier 3 in every other case.
C1_TierChoiceAsStated ==
    (pc \in {"finally", "done"} /\ err.raised) =>
        /\ tier \in {1, 2, 3}
        /\ (tier = 1) <=> (err.nimages > 0)
        /\ (tier = 2) <=> (err.nimages = 0 /\ probe.opened = "ok")
        /\ (tier = 3) <=> ~(err.nimages > 0) /\ ~(err.nimages = 0 /\ probe.opened = "ok")

\* C1 (amended): as above, but tier 2 is taken iff no record existed and the
\* source path exists, opens as a raster image AND is saved as a PNG file
\* under temp_images without error; a source that opens but cannot be saved
\* ends in tier 3.
C1_TierChoice ==
    (pc \in {"finally", "done"} /\ err.raised) =>
        /\ tier \in {1, 2, 3}
        /\ (tier = 1) <=> (err.nimages > 0)
        /\ (tier = 2) <=> (err.nimages = 0 /\ probe.exists = "yes"
                           /\ probe.opened = "ok" /\ probe.saved = "ok")
        /\ (tier = 3) <=> (err.nimages = 0 /\ ~(probe.exists = "yes"
                           /\ probe.opened = "ok" /\ probe.saved = "ok"))
        /\ (tier = 1) => probe = NoProbe
        /\ (result.kind = "raise") <=> (tier = 3)

\* a run that failed in get_images with text but no image recorded, and whose
\* source then opened and saved as an image
C1_Witness ==
    /\ FailedDone /\ tier = 2 /\ err.stage = "get_images"
    /\ extracted_text # <<>> /\ err.nimages = 0

(***************************************************************************)
(* C2: image references of a page                                           *)
(***************************************************************************)
\* C2 (as stated): after a normal return, for every page p with K embedded
\* images the output of page p holds exactly K image tags, carrying the URLs
\* of the ExtractedImage records of page p, in embedding order.
C2_PageImageRefsAsStated ==
    NormalDone =>
        \A p \in 1..Len(pages) :
            /\ Len(OutputUrlsOfPage(p)) = Len(pages[p].images)
            /\ OutputUrlsOfPage(p) = RecordUrlsOfPage(p)

\* C2 (amended): after a normal return, for every page p the output of page p
\* holds exactly one image tag for each embedded image of p whose extraction
\* and upload succeeded (K tags when none of the K images failed), carrying
\* the URLs of the ExtractedImage records of page p, in embedding order.
C2_PageImageRefs ==
    NormalDone =>
        \A p \in 1..Len(pages) :
            LET ok == OkIndices(pages[p].images)
                urls == OutputUrlsOfPage(p)
            IN /\ Len(urls) = Len(ok)
               /\ urls = RecordUrlsOfPage(p)
               /\ \A k \in 1..Len(ok) :
                     urls[k] = PublicUrl(BucketName, KeyOf(p, ok[k]))
               /\ \A k \in 1..Len(result.images) :
                     result.images[k].page = p =>
                        \E j \in 1..Len(ok) : result.images[k].url = urls[j]

\* a normal return where page 1 has two uploaded images and page 2 one
C2_Witness ==
    /\ NormalDone /\ Len(pages) = 2
    /\ Len(OutputUrlsOfPage(1)) = 2 /\ Len(OutputUrlsOfPage(2)) = 1

(***************************************************************************)
(* C3: one output shape, chosen once                                        *)
(***************************************************************************)
C3_ShapeInv ==
    /\ NormalDone =>
          /\ result.kind \in {"page_documents", "text"}
          /\ (result.kind = "page_documents") <=> (is_maintenance_doc = TRUE)
          /\ (result.kind = "text") <=> (is_maintenance_doc = FALSE)
          /\ result.kind = "page_documents" =>
                /\ "page_documents" \in bound /\ result.value = page_documents
                /\ enhanced_text = <<>>
          /\ result.kind = "text" =>
                /\ "page_documents" \notin bound /\ page_documents = <<>>
                /\ result.value = Join(<<"\n">>, enhanced_text)
    /\ "is_maintenance_doc" \in bound =>
          /\ Len(extracted_text) = page_count
          /\ Len(pages) = page_count
          /\ pc \notin {"start", "open", "scan", "images", "classify"}
    /\ (pc = "assemble" /\ asm_idx > 0) => "is_maintenance_doc" \in bound

\* C3: every normal return yields exactly one of the two shapes (a list of
\* page documents, or one merged text; never both, never neither); the shape
\* is the classifier's decision, which is taken after all pages are scanned
\* and before the first assembly step, and never changes afterwards.
C3_OneShape ==
    /\ []C3_ShapeInv
    /\ [][("is_maintenance_doc" \in bound) =>
              /\ "is_maintenance_doc" \in bound'
              /\ is_maintenance_doc' = is_maintenance_doc]_vars

\* a normal return in maintenance mode with two page documents
C3_Witness ==
    NormalDone /\ result.kind = "page_documents" /\ Len(result.value) = 2

(***************************************************************************)
(* C4: the document handle                                                  *)
(***************************************************************************)
\* C4: when the call has ended (normal return, return from tier 1 or tier 2,
\* or the error of tier 3), the document handle is not open.
C4_HandleClosed == pc = "done" => ~handle_open

\* the call ended in tier 3 after the handle had been opened
C4_Witness == FailedDone /\ tier = 3 /\ err.stage = "get_text" /\ page_count > 0


(***************************************************************************)
(* C5: a failing image is skipped                                           *)
(***************************************************************************)
\* every URL written in the returned document(s)
OutputUrls == Concat([p \in 1..Len(pages) |-> OutputUrlsOfPage(p)])

\* the scan loop has ended without an exception
ScanComplete ==
    /\ ~err.raised /\ result.kind # "raise"
    /\ pc \in {"classify", "assemble", "finally", "done"}

C5_SkipInv ==
    /\ \A a, b \in 1..Len(put_calls) : a # b => put_calls[a] # put_calls[b]
    /\ \A p \in 1..Len(pages) : \A i \in 1..Len(pages[p].images) :
          pages[p].images[i].outcome # "ok" =>
              /\ KeyOf(p, i) \notin objects
              /\ \A k \in 1..Len(extracted_images) :
                    extracted_images[k].filename # KeyOf(p, i)
    /\ NormalDone =>
          LET urls == OutputUrls
          IN \A p \in 1..Len(pages) : \A i \in 1..Len(pages[p].images) :
                pages[p].images[i].outcome # "ok" =>
                    \A k \in 1..Len(urls) : urls[k] # PublicUrl(BucketName, KeyOf(p, i))
    /\ ScanComplete =>
          \A p \in 1..Len(pages) : \A i \in 1..Len(pages[p].images) :
              /\ pages[p].images[i].outcome = "ok" =>
                    /\ KeyOf(p, i) \in objects
                    /\ \E k \in 1..Len(extracted_images) :
                          /\ extracted_images[k].filename = KeyOf(p, i)
                          /\ extracted_images[k].page = p
              /\ pages[p].images[i].outcome = "upload_fail" =>
                    \E k \in 1..Len(put_calls) : put_calls[k] = KeyOf(p, i)

\* C5: an image whose extraction or upload fails gets no ExtractedImage
\* record, no stored object and no reference in the output; every other image
\* of the page and of the later pages is still processed and uploaded; the
\* image loop is only left for the next page, never for the handler of line
\* 179; and no object key is put twice.
C5_ImageFailureNonFatal ==
    /\ []C5_SkipInv
    /\ [][pc = "images" => (pc' \in {"images", "scan"} /\ err' = err)]_vars

\* a normal return of a two-page document whose first image failed to upload
\* and whose later images, on the same page and on page 2, were uploaded
C5_Witness ==
    /\ NormalDone /\ Len(pages) = 2
    /\ Len(pages[1].images) = 2 /\ pages[1].images[1].outcome = "upload_fail"
    /\ pages[1].images[2].outcome = "ok" /\ Len(pages[2].images) >= 1
    /\ pages[2].images[1].outcome = "ok"
    /\ Len(result.images) >= 2 /\ Len(put_calls) > Len(result.images)

(***************************************************************************)
(* C6: object keys                                                          *)
(***************************************************************************)
IsKept(c) == c \in AlnumChars \cup {"_", "-"}

\* the sanitized base name of the claim: the kept characters of the base
\* name, or "document" when none is kept
SanitizedBaseName ==
    LET kept == SelectSeq(SplitextRoot(Basename(pdf_path)), IsKept)
    IN IF Len(kept) = 0 THEN <<"d", "o", "c", "u", "m", "e", "n", "t">> ELSE kept

ExtChars(ext) == IF ext = "png" THEN <<"p", "n", "g">> ELSE <<"j", "p", "e", "g">>

\* {sanitized base name}_page{p}_img{i}_v1.{ext}
KeyPattern(p, i, ext) ==
    SanitizedBaseName \o <<"_", "p", "a", "g", "e">> \o Str(p)
        \o <<"_", "i", "m", "g">> \o Str(i) \o <<"_", "v", "1", ".">> \o ExtChars(ext)

\* image i of page p has gone through the image loop
Processed(p, i) ==
    \/ p <= page_idx /\ pc # "start" /\ pc # "open"
    \/ p = page_idx + 1 /\ pc = "images" /\ i <= img_idx

\* the images that reached put_object so far
Uploaded ==
    { pi \in {<<p, i>> : p \in 1..Len(pages), i \in 1..MaxImgs} :
        /\ pi[2] <= Len(pages[pi[1]].images)
        /\ Processed(pi[1], pi[2])
        /\ pages[pi[1]].images[pi[2]].outcome # "extract_fail" }

PutKeys == {put_calls[k] : k \in 1..Len(put_calls)}

\* C6 (as stated): the key under which image i (extension ext) of page p is
\* uploaded is {sanitized base name}_page{p}_img{i}_v1.{ext}.
C6_ObjectKeyAsStated ==
    PutKeys = {KeyPattern(pi[1], pi[2], pages[pi[1]].images[pi[2]].ext) : pi \in Uploaded}

\* C6 (amended): the key under which image i of page p is uploaded is
\* {sanitized base name}_page{p}_img{i}_v1.png, whatever the extension of the
\* image is (the extension only goes into the content type).
C6_ObjectKey ==
    /\ PutKeys = {KeyPattern(pi[1], pi[2], "png") : pi \in Uploaded}
    /\ \A k \in 1..Len(extracted_images) :
          tier # 2 => extracted_images[k].filename \in PutKeys

\* a jpeg image, second on page 2 of a PDF whose base name sanitizes to
\* nothing, has been uploaded
C6_Witness ==
    /\ SplitextRoot(Basename(pdf_path)) = <<" ", "+">>
    /\ <<2, 2>> \in Uploaded /\ pages[2].images[2].ext = "jpeg"
    /\ pages[2].images[2].outcome = "ok"

(***************************************************************************)
(* C7: filenames are unique                                                 *)
(***************************************************************************)
\* C7: in every state of a run no two ExtractedImage records of
\* extracted_images have the same filename.
C7_UniqueFilenames ==
    \A a, b \in 1..Len(extracted_images) :
        a # b => extracted_images[a].filename # extracted_images[b].filename

\* records of two pages, after a skipped image
C7_Witness ==
    /\ Len(extracted_images) >= 2
    /\ \E p \in 1..Len(pages) : \E i \in 1..Len(pages[p].images) :
          pages[p].images[i].outcome # "ok" /\ Processed(p, i)
    /\ extracted_images[1].page # extracted_images[Len(extracted_images)].page


(***************************************************************************)
(* C8: tier 2 uploads the source file                                       *)
(***************************************************************************)
\* C8: when tier 2 ended the call, the result is one image tag together with
\* an image list of exactly one element, and the URL of that element is the
\* URL of an object that was uploaded to the bucket before the return.
C8_Tier2Uploaded ==
    (pc \in {"finally", "done"} /\ tier = 2) =>
        /\ Len(result.images) = 1
        /\ result.value = ImgTag(result.images[1].url, "tupian")
        /\ \E key \in objects : result.images[1].url = PublicUrl(BucketName, key)

(***************************************************************************)
(* C9: pages of the returned images                                         *)
(***************************************************************************)
HasPageText(p) == \E k \in 1..Len(extracted_text) : extracted_text[k].page = p

\* C9 (as stated): whenever the call returned an image list (normal return,
\* tier 1, tier 2), the page of every image in it is the page of a PageText
\* scanned during the run.
C9_ImagePagesScannedAsStated ==
    (pc = "done" /\ result.kind \in {"page_documents", "text"}) =>
        \A k \in 1..Len(result.images) : HasPageText(result.images[k].page)

\* C9 (amended): on a normal return and on a return from tier 1 the page of
\* every returned image is the page of a PageText scanned during the run; the
\* single image returned by tier 2 carries page 1, whether or not a PageText
\* of page 1 was scanned.
C9_ImagePagesScanned ==
    (pc = "done" /\ result.kind \in {"page_documents", "text"}) =>
        /\ tier \in {0, 1} =>
              \A k \in 1..Len(result.images) :
                  /\ HasPageText(result.images[k].page)
                  /\ result.images[k].page \in 1..Len(pages)
        /\ tier = 2 => (Len(result.images) = 1 /\ result.images[1].page = 1)

\* tier 1 returned the images of page 1 after get_text failed on page 2
C9_Witness ==
    /\ FailedDone /\ tier = 1 /\ Len(result.images) >= 1
    /\ result.images[Len(result.images)].page = 1
    /\ err.stage = "get_text" /\ Len(extracted_text) = 1 /\ page_count = 2

(***************************************************************************)
(* C10: generic mode without images                                         *)
(***************************************************************************)
NoImagesInPdf == \A p \in 1..Len(pages) : pages[p].images = <<>>

\* pages that contributed at least one segment to the merged text
BlockPages == {seg_page[k] : k \in 1..Len(seg_page)}

SegmentsAscending ==
    \A a, b \in 1..Len(seg_page) : a < b => seg_page[a] <= seg_page[b]

NoImageSegments ==
    /\ \A k \in 1..Len(enhanced_text) : TagUrls(enhanced_text[k]) = <<>>
    /\ TagUrls(result.value) = <<>>

\* C10 (as stated): a PDF of N pages and no image that is returned in generic
\* mode yields exactly N page-text blocks, in ascending page order, and no
\* image-reference segment.
C10_GenericNoImagesAsStated ==
    (NormalDone /\ result.kind = "text" /\ NoImagesInPdf) =>
        /\ Cardinality(BlockPages) = Len(pages)
        /\ SegmentsAscending
        /\ NoImageSegments

\* C10 (amended): such a PDF yields exactly one page-text block for each page
\* whose text is not blank (a page with empty or whitespace-only text adds
\* nothing, so N blocks when no page is blank), in ascending page order, and
\* no image-reference segment.
C10_GenericNoImages ==
    (NormalDone /\ result.kind = "text" /\ NoImagesInPdf) =>
        /\ BlockPages =
              {p \in 1..Len(pages) :
                  \E i \in 1..Len(pages[p].text) : pages[p].text[i] \notin SpaceChars}
        /\ SegmentsAscending
        /\ Len(seg_page) = Len(enhanced_text)
        /\ \A k \in 1..Len(enhanced_text) : enhanced_text[k] # <<>>
        /\ NoImageSegments

\* generic mode, no image, a blank first page and a second page of two
\* paragraphs
C10_Witness ==
    /\ NormalDone /\ result.kind = "text" /\ NoImagesInPdf /\ Len(pages) = 2
    /\ pages[1].text = <<" ", "\n">> /\ pages[2].text = <<"a", "\n", "\n", "b">>
    /\ Len(enhanced_text) = 2

(***************************************************************************)
(* C11: the classifier                                                      *)
(***************************************************************************)
\* the words of the text the PDF library answered for page p
WordsOfPage(p) == {pages[p].text[i] : i \in 1..Len(pages[p].text)}

\* page p alone carries the marker, or both tokens
CasePage(p) == DeviceNameWord \in WordsOfPage(p) \/ {ModelWord, FaultNameWord} \subseteq WordsOfPage(p)

\* C11: once the classifier has run, maintenance-case mode is selected if and
\* only if some single page's text contains the device-name marker or both
\* the model token and the fault token; otherwise generic mode. The mode is
\* a function of the page texts alone, a document without pages is generic,
\* and a run that returns normally returns the shape of the selected mode.
C11_ClassifierMode ==
    ("is_maintenance_doc" \in bound) =>
        /\ Len(pages) = page_count
        /\ is_maintenance_doc <=> (\E p \in 1..Len(pages) : CasePage(p))
        /\ page_count = 0 => ~is_maintenance_doc
        /\ NormalDone => (result.kind = "page_documents" <=> \E p \in 1..Len(pages) : CasePage(p))

\* the model token only on page 1, the fault token only on page 2: generic
C11_Witness ==
    /\ NormalDone /\ result.kind = "text" /\ ~is_maintenance_doc
    /\ Len(pages) = 2
    /\ pages[1].text = <<ModelWord, "\n", "a">>
    /\ pages[2].text = <<FaultNameWord, "a">>

(***************************************************************************)
(* C12: the document of recovery tier 1                                     *)
(***************************************************************************)
\* pages that have at least one ExtractedImage record
ImagePages == {extracted_images[k].page : k \in 1..Len(extracted_images)}

\* the heading written for page p
HeadingOf(p) == <<"## di">> \o Str(p) \o <<"ye-tupian", "\n">>

\* position in enhanced_text of the heading of page p: the headings of the
\* image pages below p and the tags of their images stand before it
HeadingPos(p) ==
    1 + Cardinality({q \in ImagePages : q < p})
      + Cardinality({k \in 1..Len(extracted_images) : extracted_images[k].page < p})

\* C12: when recovery tier 1 is taken, the returned document is the segments
\* joined by newlines, the segments are exactly one heading for each page that
\* has an ExtractedImage, in ascending page order, each followed by one image
\* tag per ExtractedImage of that page in list order, nothing else (no page
\* text, nothing for pages without images), and the returned image list is
\* the list collected before the error.
C12_Tier1Document ==
    (tier = 1) =>
        /\ result.kind = "text"
        /\ result.value = Join(<<"\n">>, enhanced_text)
        /\ result.images = extracted_images
        /\ Len(extracted_images) = err.nimages
        /\ Len(enhanced_text) = Cardinality(ImagePages) + Len(extracted_images)
        /\ \A p \in ImagePages :
              LET urls == RecordUrlsOfPage(p)
              IN /\ enhanced_text[HeadingPos(p)] = HeadingOf(p)
                 /\ \A i \in 1..Len(urls) :
                       enhanced_text[HeadingPos(p) + i] =
                           <<"\n">> \o ImgTag(urls[i], "tupian") \o <<"\n">>
        /\ Len(TagUrls(result.value)) = Len(extracted_images)

\* page 1 gave one uploaded image, then reading page 2 failed: one heading,
\* one image tag, an image list of length 1
C12_Witness ==
    /\ tier = 1 /\ pc = "done" /\ err.stage = "get_text"
    /\ page_count = 2 /\ Len(pages) = 1
    /\ Len(extracted_images) = 1 /\ Len(result.images) = 1
    /\ Len(enhanced_text) = 2
    /\ enhanced_text[1] = HeadingOf(1)

(***************************************************************************)
(* C13: the object store client is a singleton                              *)
(***************************************************************************)
\* C13: over any sequence of get_minio_client calls, init_minio_bucket calls
\* and pipeline runs in one process, at most one client instance is ever
\* constructed, the global keeps it, and every call that follows a call
\* which returned an instance returns that same instance.
C13_ClientSingleton ==
    /\ constructed <= 1
    /\ _minio_client # NoClient => constructed = 1
    /\ \A i, j \in 1..Len(client_returns) :
          (i < j /\ client_returns[i] # NoClient) =>
              client_returns[j] = client_returns[i]
    /\ \A i \in 1..Len(client_returns) :
          client_returns[i] # NoClient => client_returns[i] = _minio_client

\* a first call in which the construction failed, then a run, then a second
\* run that passed its setup with the instance of the first
C13_Witness ==
    /\ runs = 2 /\ pc = "open"
    /\ constructed = 1
    /\ Len(client_returns) = 5
    /\ client_returns[1] = NoClient
    /\ client_returns[5] = _minio_client /\ _minio_client # NoClient

(***************************************************************************)
(* C14, C15: the command-line entry point                                   *)
(***************************************************************************)
\* main has ended after extract_images_from_pdf returned a result, and no
\* file write and no knowledge-base call failed, and an API key or
\* --skip_ragflow was given
MainEndedAfterExtraction ==
    /\ main_pc = "done"
    /\ result.kind \in {"page_documents", "text"}
    /\ main_err \notin {"file_write", "kb"}
    /\ main_exit # "no_api_key"

\* C14: when extraction completes, main writes exactly one file per produced
\* document (one per PageDocument in maintenance-case mode, one for the
\* merged document in generic mode or of a recovery tier) and reaches its
\* summary without entering its error handler.
C14_OneFilePerDocument ==
    MainEndedAfterExtraction =>
        /\ main_err = "none"
        /\ main_exit \in {"summary_skip", "summary_kb"}
        /\ Cardinality(disk) =
              (IF result.kind = "page_documents" THEN Len(result.value) ELSE 1)

\* C15: when an error was raised during the run of main (from extraction,
\* file writing or knowledge-base creation), main ends by re-raising it.
C15_ErrorReraised ==
    (main_pc = "done" /\ main_err \in {"extraction", "file_write", "kb"}) =>
        main_exit = "raised"

====
